---- MODULE Spec2Model ----
(***************************************************************************)
(* A model of cargo-deny's ban-configuration validator (src/bans/cfg.rs)   *)
(* and of its diagnostic helpers (src/diag.rs): Pack, KrateSpans and the   *)
(* inverted dependency Grapher.                                            *)
(*                                                                         *)
(* Option<T> is a sequence of length 0 (None) or 1 (Some).  Text is a      *)
(* sequence of byte tokens.  A Range / Span is a record [start, end],      *)
(* 0-based and half open as in Rust.                                       *)
(***************************************************************************)
EXTENDS Integers, Sequences, FiniteSets, TLC

VARIABLES
    \* ---- bans::cfg::Config and the value returned by Config::validate
    deny, allow, skip, result,
    \* ---- diag::Pack; pushed records how the pack was created and the
    \*      Diags handed to Pack::push since
    pack, pushed,
    \* ---- diag::KrateSpans::new: the graph's krates and the returned pair
    krates, kspans,
    \* ---- diag::Grapher: the graph's edges; write_graph's argument and
    \*      locals; the write_parents invocations in progress; where the call
    \*      stands; one record per write_parent invocation of this call; the
    \*      number of calls made and the text the previous call returned
    edges, target, out, visited, levels_continue, stack, gpc, trace,
    call, prev_out

cfgVars   == <<deny, allow, skip, result>>
packVars  == <<pack, pushed>>
spanVars  == <<krates, kspans>>
graphVars == <<edges, target, out, visited, levels_continue, stack, gpc,
               trace, call, prev_out>>
vars      == <<cfgVars, packVars, spanVars, graphVars>>

None == <<>>
Some(x) == <<x>>

\* The state of the components a specification does not exercise.
CfgIdle ==
    /\ deny = <<>> /\ allow = <<>> /\ skip = <<>>
    /\ result = [tag |-> "idle"]
PackIdle ==
    /\ pack = [diags |-> <<>>, kid |-> None]
    /\ pushed = [created |-> "idle", default |-> None, args |-> <<>>]
SpanIdle ==
    /\ krates = <<>>
    /\ kspans = [tag |-> "idle"]
GraphIdle ==
    /\ edges = <<>> /\ target = "" /\ out = <<>> /\ visited = {}
    /\ levels_continue = <<>> /\ stack = <<>> /\ gpc = "idle"
    /\ trace = <<>> /\ call = 0 /\ prev_out = <<>>

(***************************************************************************)
(*                      bans::cfg::Config::validate                        *)
(***************************************************************************)

\* The largest number of entries in deny, allow and skip together.
MaxEntries == 4

\* Crate identities (KrateId): a name and a version requirement; version 0
\* stands for VersionReq::any().
KrateIds ==
    { [name |-> "a", version |-> 0],
      [name |-> "a", version |-> 1],
      [name |-> "b", version |-> 0] }

Categories == {"deny", "allow", "skip"}

NameRank(n) == CASE n = "a" -> 1 [] n = "b" -> 2

\* Ordering::{Less, Equal, Greater} as -1, 0, 1.
\* KrateId's Ord: by name, then by version requirement.
KrateIdCmp(x, y) ==
    IF NameRank(x.name) < NameRank(y.name) THEN -1
    ELSE IF NameRank(x.name) > NameRank(y.name) THEN 1
    ELSE IF x.version < y.version THEN -1
    ELSE IF x.version > y.version THEN 1
    ELSE 0

\* Spanned<T>'s Ord compares the values and ignores the spans.
SkrateCmp(x, y) == KrateIdCmp(x.value, y.value)

\* The closure `from`: Spanned<CrateId> to Skrate, field by field.
From(s) ==
    [value |-> [name |-> s.value.name, version |-> s.value.version],
     span  |-> s.span]

MapFrom(list) == [i \in 1..Len(list) |-> From(list[i])]

\* Insertion of x after every element that is not greater than it.
RECURSIVE InsertSorted(_, _)
InsertSorted(x, s) ==
    IF s = <<>> THEN <<x>>
    ELSE IF SkrateCmp(x, Head(s)) < 0 THEN <<x>> \o s
    ELSE <<Head(s)>> \o InsertSorted(x, Tail(s))

RECURSIVE StableSort(_, _)
StableSort(s, acc) ==
    IF s = <<>> THEN acc
    ELSE StableSort(Tail(s), InsertSorted(Head(s), acc))

RECURSIVE Dedup(_)
Dedup(s) ==
    IF Len(s) <= 1 THEN s
    ELSE IF SkrateCmp(s[1], s[2]) = 0 THEN Dedup(Tail(s))
    ELSE <<Head(s)>> \o Dedup(Tail(s))

ParSortNoOp(s) == s

ParSortDedup(s) == Dedup(StableSort(s, <<>>))

\* rayon's par_sort: a stable sort by Ord.
ParSort(s) == StableSort(s, <<>>)

\* slice::binary_search on a sorted slice: Ok(i) for some i with
\* list[i] == x (any one of them when there are several), Err otherwise,
\* here 0.
BinarySearch(list, x) ==
    LET hits == {i \in 1..Len(list) : SkrateCmp(list[i], x) = 0}
    IN  IF hits = {} THEN {0} ELSE hits

\* One search result for every element of `left` looked up in `right`.
Searches(left, right) ==
    {p \in [1..Len(left) -> 0..Len(right)] :
        \A i \in 1..Len(left) : p[i] \in BinarySearch(right, left[i])}

Label(span, cat) == [span |-> span, message |-> cat]

NewError(c1, c2, primary, secondary) ==
    [severity  |-> "Error",
     message   |-> <<c1, c2>>,
     primary   |-> primary,
     secondary |-> <<secondary>>]

add_diag_flipped(first, fcat, second, scat) ==
    LET flabel == Label(first.span, fcat)
        slabel == Label(second.span, scat)
    IN  IF flabel.span.start < slabel.span.start
        THEN NewError(fcat, scat, flabel, slabel)
        ELSE NewError(scat, fcat, slabel, flabel)

add_diag_fixed_message(first, fcat, second, scat) ==
    LET flabel == Label(first.span, fcat)
        slabel == Label(second.span, scat)
    IN  IF flabel.span.start > slabel.span.start
        THEN NewError(fcat, scat, flabel, slabel)
        ELSE NewError(fcat, scat, slabel, flabel)

\* The closure `add_diag`: the diagnostic it pushes.  The message
\* "a license id was specified in both `x` and `y`" is the pair <<x, y>>,
\* a label "marked as `x`" is x.
add_diag(first, fcat, second, scat) ==
    LET flabel == Label(first.span, fcat)
        slabel == Label(second.span, scat)
    IN  IF flabel.span.start > slabel.span.start
        THEN NewError(fcat, scat, flabel, slabel)
        ELSE NewError(scat, fcat, slabel, flabel)

\* One turn of `for d in &denied`: the allow lookup, then the skip lookup.
DeniedTurn(d, allowed, skipped, ai, si) ==
    (IF ai # 0 THEN <<add_diag(d, "deny", allowed[ai], "allow")>> ELSE <<>>)
    \o
    (IF si # 0 THEN <<add_diag(d, "deny", skipped[si], "skip")>> ELSE <<>>)

\* One turn of `for a in &allowed`.
AllowedTurn(a, skipped, si) ==
    IF si # 0 THEN <<add_diag(a, "allow", skipped[si], "skip")>> ELSE <<>>

RECURSIVE DeniedLoop(_, _, _, _, _, _)
DeniedLoop(i, denied, allowed, skipped, pa, ps) ==
    IF i > Len(denied) THEN <<>>
    ELSE DeniedTurn(denied[i], allowed, skipped, pa[i], ps[i])
         \o DeniedLoop(i + 1, denied, allowed, skipped, pa, ps)

RECURSIVE AllowedLoop(_, _, _, _)
AllowedLoop(i, allowed, skipped, qs) ==
    IF i > Len(allowed) THEN <<>>
    ELSE AllowedTurn(allowed[i], skipped, qs[i])
         \o AllowedLoop(i + 1, allowed, skipped, qs)

DiagnosticsFirstOnly(denied, allowed, skipped, pa, ps, qs) ==
    LET all == DeniedLoop(1, denied, allowed, skipped, pa, ps)
               \o AllowedLoop(1, allowed, skipped, qs)
    IN  SubSeq(all, 1, IF Len(all) > 0 THEN 1 ELSE 0)

DiagnosticsAllowFirst(denied, allowed, skipped, pa, ps, qs) ==
    AllowedLoop(1, allowed, skipped, qs)
    \o DeniedLoop(1, denied, allowed, skipped, pa, ps)

\* The two conflict loops, in program order; pa, ps and qs are the results
\* of the binary searches (deny in allow, deny in skip, allow in skip).
Diagnostics(denied, allowed, skipped, pa, ps, qs) ==
    DeniedLoop(1, denied, allowed, skipped, pa, ps)
    \o AllowedLoop(1, allowed, skipped, qs)

\* The value returned: Err(diagnostics), or Ok(ValidConfig).
Returned(diagnostics, denied, allowed, skipped) ==
    IF diagnostics # <<>>
    THEN [tag |-> "Err", diagnostics |-> diagnostics,
          denied |-> <<>>, allowed |-> <<>>, skipped |-> <<>>]
    ELSE [tag |-> "Ok", diagnostics |-> <<>>,
          denied |-> denied, allowed |-> allowed, skipped |-> skipped]

\* A span-tagged entry of the configuration file.
Entry(id, start) ==
    [value |-> id, span |-> [start |-> start, end |-> start + 1]]

\* The entries of category c among f[1..n], in list order; the entry at
\* list position i starts at offset pos[i].
RECURSIVE ListOf(_, _, _, _)
ListOf(c, f, pos, i) ==
    IF i > Len(f) THEN <<>>
    ELSE (IF f[i][1] = c THEN <<Entry(f[i][2], pos[i])>> ELSE <<>>)
         \o ListOf(c, f, pos, i + 1)

\* A deserialized Config: at most MaxEntries entries, no two at the same
\* offset, the lists in any order relative to the offsets.
InitCfg ==
    /\ \E n \in 0..MaxEntries :
       \E f \in [1..n -> Categories \X KrateIds] :
       \E pos \in {[i \in 1..n |-> i], [i \in 1..n |-> n + 1 - i]} :
          /\ deny  = ListOf("deny", f, pos, 1)
          /\ allow = ListOf("allow", f, pos, 1)
          /\ skip  = ListOf("skip", f, pos, 1)
    /\ result = [tag |-> "none"]
    /\ PackIdle /\ SpanIdle /\ GraphIdle

\* Config::validate(self, cfg_file).
Validate ==
    /\ result.tag = "none"
    /\ LET denied  == ParSort(MapFrom(deny))
           allowed == ParSort(MapFrom(allow))
           skipped == ParSort(MapFrom(skip))
       IN  \E pa \in Searches(denied, allowed) :
           \E ps \in Searches(denied, skipped) :
           \E qs \in Searches(allowed, skipped) :
              result' = Returned(
                  Diagnostics(denied, allowed, skipped, pa, ps, qs),
                  denied, allowed, skipped)
    /\ UNCHANGED <<deny, allow, skip>>
    /\ UNCHANGED <<packVars, spanVars, graphVars>>

NextCfg == Validate

SpecCfg == InitCfg /\ [][NextCfg]_vars

(***************************************************************************)
(*                   Properties of Config::validate                        *)
(***************************************************************************)

Range(s) == {s[i] : i \in DOMAIN s}

Returns == result.tag \in {"Ok", "Err"}

ErrDiags == IF result.tag = "Err" THEN Range(result.diagnostics) ELSE {}

\* The two categories a diagnostic's labels name.
Kind(dg) == {dg.primary.message, dg.secondary[1].message}

HasEqual(e, list) == \E x \in Range(list) : x.value = e.value

\* dg reports the conflict of entry x (category xc) with entry y (yc), the
\* later of the two as primary label and the other as secondary label.
Reports(dg, x, xc, y, yc) ==
    LET xl == Label(x.span, xc)
        yl == Label(y.span, yc)
    IN  /\ \/ dg.primary = xl /\ dg.secondary = <<yl>>
           \/ dg.primary = yl /\ dg.secondary = <<xl>>
        /\ dg.primary.span.start >= x.span.start
        /\ dg.primary.span.start >= y.span.start

\* C1: whenever an identity is in both deny and allow, validate returns
\* Err, and for each such deny entry the list holds a diagnostic pairing it
\* with an allow entry of the same identity, whose primary label is at the
\* span that starts later and whose secondary label is at the other span.
C1_ConflictPrimaryIsLater ==
    Returns =>
        \A d \in Range(deny) :
            HasEqual(d, allow) =>
                /\ result.tag = "Err"
                /\ \E dg \in ErrDiags :
                   \E a \in Range(allow) :
                      /\ a.value = d.value
                      /\ Reports(dg, d, "deny", a, "allow")

\* Both branches of add_diag have been taken for deny/allow conflicts.
C1_Witness ==
    /\ result.tag = "Err"
    /\ \E dg \in ErrDiags :
          Kind(dg) = {"deny", "allow"} /\ dg.primary.message = "deny"
    /\ \E dg \in ErrDiags :
          Kind(dg) = {"deny", "allow"} /\ dg.primary.message = "allow"

ConflictExists ==
    \/ \E d \in Range(deny) : HasEqual(d, allow) \/ HasEqual(d, skip)
    \/ \E a \in Range(allow) : HasEqual(a, skip)

\* The diagnostics of kind {c, oc} with a label at entry e of category c.
DiagsFor(e, c, oc) ==
    {k \in DOMAIN result.diagnostics :
        LET dg == result.diagnostics[k]
        IN  /\ Kind(dg) = {c, oc}
            /\ Label(e.span, c) \in {dg.primary, dg.secondary[1]}}

Conflicting(left, right) == {e \in Range(left) : HasEqual(e, right)}

\* C2: validate returns Err exactly when some identity is in two of the
\* lists, and the Err list holds exactly one diagnostic for every deny
\* entry with an equal allow entry, one for every deny entry with an equal
\* skip entry, one for every allow entry with an equal skip entry, and
\* nothing else.
C2_AllConflictsCollected ==
    Returns =>
        /\ (result.tag = "Err") <=> ConflictExists
        /\ result.tag = "Err" =>
            /\ \A d \in Conflicting(deny, allow) :
                  Cardinality(DiagsFor(d, "deny", "allow")) = 1
            /\ \A d \in Conflicting(deny, skip) :
                  Cardinality(DiagsFor(d, "deny", "skip")) = 1
            /\ \A a \in Conflicting(allow, skip) :
                  Cardinality(DiagsFor(a, "allow", "skip")) = 1
            /\ Len(result.diagnostics) =
                  Cardinality(Conflicting(deny, allow))
                  + Cardinality(Conflicting(deny, skip))
                  + Cardinality(Conflicting(allow, skip))

\* One identity in all three lists: three diagnostics in one Err.
C2_Witness ==
    /\ result.tag = "Err"
    /\ Len(result.diagnostics) >= 3
    /\ \E dg \in ErrDiags : Kind(dg) = {"allow", "skip"}

Sorted(list) ==
    \A i, j \in DOMAIN list : i < j => SkrateCmp(list[i], list[j]) <= 0

HasDuplicate(list) ==
    \E i, j \in DOMAIN list : i # j /\ list[i].value = list[j].value

\* C3: on Ok, denied, allowed and skipped are each non-decreasing in the
\* identity order.
C3_SortedOnOk ==
    result.tag = "Ok" =>
        /\ Sorted(result.denied)
        /\ Sorted(result.allowed)
        /\ Sorted(result.skipped)

\* Ok from a raw list that was out of order and held a duplicate.
C3_Witness ==
    /\ result.tag = "Ok"
    /\ \E l \in {deny, allow, skip} : ~Sorted(l) /\ HasDuplicate(l)

Count(list, id) == Cardinality({i \in DOMAIN list : list[i].value = id})

SameIdentities(raw, sorted) ==
    /\ Len(raw) = Len(sorted)
    /\ \A id \in KrateIds : Count(raw, id) = Count(sorted, id)
    /\ Range(raw) = Range(sorted)

\* C4: on Ok, each of denied, allowed, skipped holds the same multiset of
\* identities (and the same span-tagged entries) as the raw list of its
\* category.
C4_NoDataLoss ==
    result.tag = "Ok" =>
        /\ SameIdentities(deny, result.denied)
        /\ SameIdentities(allow, result.allowed)
        /\ SameIdentities(skip, result.skipped)

\* Ok with entries in more than one category, a duplicate identity in one
\* list and a list that validate had to reorder.
C4_Witness ==
    /\ result.tag = "Ok"
    /\ Cardinality({l \in {deny, allow, skip} : l # <<>>}) >= 2
    /\ \E l \in {deny, allow, skip} : HasDuplicate(l)
    /\ \E l \in {deny, allow, skip} : ~Sorted(l)

\* C9 as stated: the message names the secondary label's category first
\* and the primary label's category second.
C9_OtherCategoryFirst ==
    \A dg \in ErrDiags :
        dg.message = <<dg.secondary[1].message, dg.primary.message>>

\* C9 as amended: the message names the primary label's category first and
\* the secondary label's category second.
C9_PrimaryCategoryFirst ==
    \A dg \in ErrDiags :
        dg.message = <<dg.primary.message, dg.secondary[1].message>>

\* A diagnostic from each branch of add_diag.
C9_Witness ==
    /\ \E dg \in ErrDiags :
          dg.primary.message = "deny" /\ dg.secondary[1].message = "skip"
    /\ \E dg \in ErrDiags :
          dg.primary.message = "allow" /\ dg.secondary[1].message = "deny"

PassOf(dg) ==
    CASE Kind(dg) = {"deny", "allow"} -> 1
      [] Kind(dg) = {"deny", "skip"}  -> 2
      [] Kind(dg) = {"allow", "skip"} -> 3

\* C10 as stated: in an Err list every deny/allow diagnostic is before
\* every deny/skip diagnostic, which is before every allow/skip diagnostic.
C10_ThreePassesInOrder ==
    result.tag = "Err" =>
        \A i, j \in DOMAIN result.diagnostics :
            i < j => PassOf(result.diagnostics[i])
                        <= PassOf(result.diagnostics[j])

\* The deny entry a deny/allow or deny/skip diagnostic is about.
DenyEntryOf(dg) ==
    LET sp == IF dg.primary.message = "deny"
              THEN dg.primary.span ELSE dg.secondary[1].span
    IN  CHOOSE e \in Range(deny) : e.span = sp

\* C10 as amended: in an Err list every diagnostic of a deny entry is
\* before every allow/skip diagnostic, and a deny/skip diagnostic is before
\* a deny/allow diagnostic only if it belongs to another deny entry, one
\* that is not greater in the identity order.
C10_TwoLoopsInOrder ==
    result.tag = "Err" =>
        \A i, j \in DOMAIN result.diagnostics :
            LET x == result.diagnostics[i]
                y == result.diagnostics[j]
            IN  i < j =>
                /\ PassOf(x) = 3 => PassOf(y) = 3
                /\ (PassOf(x) = 2 /\ PassOf(y) = 1) =>
                      /\ DenyEntryOf(x) # DenyEntryOf(y)
                      /\ SkrateCmp(DenyEntryOf(x), DenyEntryOf(y)) <= 0

\* A deny/skip diagnostic of one deny entry ahead of the deny/allow
\* diagnostic of a later one.
C10_Witness ==
    /\ result.tag = "Err"
    /\ \E i, j \in DOMAIN result.diagnostics :
          /\ i < j
          /\ PassOf(result.diagnostics[i]) = 2
          /\ PassOf(result.diagnostics[j]) = 1

(***************************************************************************)
(*                              diag::Pack                                 *)
(***************************************************************************)

\* The largest number of Diags in a pack.
MaxPush == 3

Kids == {"k1", "k2"}

Diagnostics_ == {"m1", "m2"}

\* Diag::new: a diagnostic with no crate attribution.
DiagNew(d) == [diag |-> d, kids |-> <<>>]

\* The Diags a caller can hand to push: fresh from Diag::new, or already
\* attributed to one or two crates.
DiagArgs ==
    {DiagNew(d) : d \in Diagnostics_}
    \cup {[diag |-> d, kids |-> <<k>>] : d \in Diagnostics_, k \in Kids}
    \cup {[diag |-> d, kids |-> ks] :
             d \in Diagnostics_,
             ks \in {q \in Kids \X Kids : q[1] # q[2]}}

\* Pack::new, Pack::with_kid and From<T: Into<Diag>> for Pack.
PackNew == [diags |-> <<>>, kid |-> None]
PackWithKid(kid) == [diags |-> <<>>, kid |-> Some(kid)]
PackFrom(t) == [diags |-> <<t>>, kid |-> None]

PushKeepsDefault(p, diag) ==
    LET stamped ==
            IF diag.kids = <<>> /\ p.kid # None
            THEN [diag EXCEPT !.kids = Append(diag.kids, p.kid[1])]
            ELSE diag
    IN  [diags |-> Append(p.diags, stamped), kid |-> p.kid]

\* Pack::push: the pack after the call.  Option::take runs only when the
\* Diag has no kids, and leaves None behind.
Push(p, diag) ==
    LET taken == IF diag.kids = <<>> THEN p.kid ELSE None
        kid   == IF diag.kids = <<>> THEN None ELSE p.kid
        stamped ==
            IF diag.kids = <<>> /\ taken # None
            THEN [diag EXCEPT !.kids = Append(diag.kids, taken[1])]
            ELSE diag
    IN  [diags |-> Append(p.diags, stamped), kid |-> kid]

InitPack ==
    /\ \/ /\ pack = PackNew
          /\ pushed = [created |-> "new", default |-> None, args |-> <<>>]
       \/ \E k \in Kids :
          /\ pack = PackWithKid(k)
          /\ pushed = [created |-> "with_kid", default |-> Some(k),
                       args |-> <<>>]
       \/ \E t \in DiagArgs :
          /\ pack = PackFrom(t)
          /\ pushed = [created |-> "from", default |-> None, args |-> <<>>]
    /\ CfgIdle /\ SpanIdle /\ GraphIdle

PackPush ==
    /\ pushed.created # "idle"
    /\ Len(pack.diags) < MaxPush
    /\ \E diag \in DiagArgs :
          /\ pack' = Push(pack, diag)
          /\ pushed' = [pushed EXCEPT !.args = Append(@, diag)]
    /\ UNCHANGED <<cfgVars, spanVars, graphVars>>

NextPack == PackPush

SpecPack == InitPack /\ [][NextPack]_vars

\* The indices of the pushed Diags that came without attribution.
Unattributed == {i \in DOMAIN pushed.args : pushed.args[i].kids = <<>>}

\* C5: in a pack made by with_kid(K), the first Diag pushed without
\* attribution is stored with kids = [K], every later one with no kids, an
\* attributed Diag is stored as pushed, and the pack's default is Some(K)
\* until that first un-attributed push and None from then on.
C5_DefaultConsumedOnce ==
    pushed.created = "with_kid" =>
        LET K == pushed.default[1]
        IN  /\ Len(pack.diags) = Len(pushed.args)
            /\ \A i \in DOMAIN pushed.args :
                  LET arg == pushed.args[i]
                      got == pack.diags[i]
                  IN  /\ got.diag = arg.diag
                      /\ got.kids =
                            IF arg.kids # <<>> THEN arg.kids
                            ELSE IF \A j \in Unattributed : i <= j
                                 THEN <<K>> ELSE <<>>
            /\ pack.kid = IF Unattributed = {} THEN Some(K) ELSE None

\* An attributed push, then two un-attributed ones: the second is stamped,
\* the third is not.
C5_Witness ==
    /\ pushed.created = "with_kid"
    /\ Len(pushed.args) = 3
    /\ pushed.args[1].kids # <<>>
    /\ pushed.args[2].kids = <<>> /\ pack.diags[2].kids = pushed.default
    /\ pushed.args[3].kids = <<>> /\ pack.diags[3].kids = <<>>

(***************************************************************************)
(*                          diag::KrateSpans::new                          *)
(***************************************************************************)

\* The largest number of nodes in the graph handed to KrateSpans::new.
MaxKrates == 2

\* Text is a sequence of bytes, each byte a token.  "FF" is a byte that is
\* not valid UTF-8; "EF" "BF" "BD" is the encoding of U+FFFD.
RECURSIVE Concat(_)
Concat(ss) == IF ss = <<>> THEN <<>> ELSE Head(ss) \o Concat(Tail(ss))

Digit(d) == <<"0", "1", "2", "3", "4", "5", "6", "7", "8", "9">>[d + 1]

\* Display for an unsigned integer: its decimal digits.
RECURSIVE Decimal(_)
Decimal(n) ==
    IF n < 10 THEN <<Digit(n)>>
    ELSE Decimal(n \div 10) \o <<Digit(n % 10)>>

\* Display for semver::Version: major.minor.patch.
VersionDisplay(v) ==
    Decimal(v.major) \o <<".">> \o Decimal(v.minor) \o <<".">>
    \o Decimal(v.patch)

\* Path::parent of an absolute path given by its components: the path
\* without its last component (None for the root).
PathParent(path) ==
    IF path = <<>> THEN None ELSE Some(SubSeq(path, 1, Len(path) - 1))

\* The bytes of an absolute path: "/" before each component, "/" alone
\* for the root.
PathBytes(path) ==
    IF path = <<>> THEN <<"/">>
    ELSE Concat([i \in 1..Len(path) |-> <<"/">> \o path[i]])

\* to_string_lossy: every byte that is not valid UTF-8 becomes U+FFFD.
ToStringLossy(bytes) ==
    Concat([i \in 1..Len(bytes) |->
               IF bytes[i] = "FF" THEN <<"EF", "BF", "BD">>
               ELSE <<bytes[i]>>])

\* The third field of a krate's line: the source if there is one, else the
\* directory of the manifest.
SourceOrDir(krate) ==
    IF krate.source # None THEN krate.source[1]
    ELSE ToStringLossy(PathBytes(PathParent(krate.manifest_path)[1]))

\* What writeln!(sl, "{} {} {}", ..) appends for a krate.
Writeln(krate) ==
    krate.name \o <<" ">> \o VersionDisplay(krate.version) \o <<" ">>
    \o SourceOrDir(krate) \o <<"\n">>

SpanEndAfterNewline(start, len) == [start |-> start, end |-> len]

\* span_start as u32 .. span_end as u32, with span_end = sl.len() - 1.
\* (The casts change nothing below 4 GiB of text.)
KrateSpan(start, len) == [start |-> start, end |-> len - 1]

\* The loop of KrateSpans::new from krate i on.
RECURSIVE SpansLoop(_, _, _, _)
SpansLoop(ks, i, spans, sl) ==
    IF i > Len(ks) THEN [tag |-> "built", spans |-> spans, sl |-> sl]
    ELSE LET span_start == Len(sl)
             sl2 == sl \o Writeln(ks[i])
         IN  SpansLoop(ks, i + 1,
                       Append(spans, KrateSpan(span_start, Len(sl2))), sl2)

\* Index<usize> for KrateSpans.
Index(ksp, i) == ksp.spans[i + 1]

\* &text[range] for a Range<u32>.
Slice(text, range) == SubSeq(text, range.start + 1, range.end)

KrateNames == {<<"a">>, <<"b", "-", "c">>}

KrateVersions ==
    { [major |-> 1, minor |-> 0, patch |-> 0],
      [major |-> 0, minor |-> 10, patch |-> 2] }

\* A registry krate, and path krates: in the root directory, in "/d", and
\* in a directory whose name is not UTF-8.
KrateOrigins ==
    { [source |-> Some(<<"r", "+", "u">>),
       manifest_path |-> << <<"h">>, <<"C">> >>],
      [source |-> None, manifest_path |-> << <<"C">> >>],
      [source |-> None, manifest_path |-> << <<"d">>, <<"C">> >>],
      [source |-> None, manifest_path |-> << <<"d", "FF">>, <<"C">> >>] }

KrateSet ==
    {[name |-> n, version |-> v, source |-> o.source,
      manifest_path |-> o.manifest_path] :
        n \in KrateNames, v \in KrateVersions, o \in KrateOrigins}

\* krates.krates(): the nodes in the graph's enumeration order.
InitSpans ==
    /\ \E n \in 0..MaxKrates : krates \in [1..n -> KrateSet]
    /\ kspans = [tag |-> "none"]
    /\ CfgIdle /\ PackIdle /\ GraphIdle

KrateSpansNew ==
    /\ kspans.tag = "none"
    /\ kspans' = SpansLoop(krates, 1, <<>>, <<>>)
    /\ UNCHANGED krates
    /\ UNCHANGED <<cfgVars, packVars, graphVars>>

NextSpans == KrateSpansNew

SpecSpans == InitSpans /\ [][NextSpans]_vars

\* C8: KrateSpans::new returns one span per node, in enumeration order,
\* and the text at spans[i] is node i's line "<name> <version> <source or
\* manifest directory>" without the newline that ends it.
C8_SpanRoundTrip ==
    kspans.tag = "built" =>
        /\ Len(kspans.spans) = Len(krates)
        /\ \A i \in 0..(Len(krates) - 1) :
              LET k == krates[i + 1]
              IN  Slice(kspans.sl, Index(kspans, i)) =
                     k.name \o <<" ">> \o VersionDisplay(k.version)
                     \o <<" ">> \o SourceOrDir(k)

\* Two nodes with lines of different lengths, the second one a path krate
\* whose directory is rendered lossily.
C8_Witness ==
    /\ kspans.tag = "built"
    /\ Len(krates) = 2
    /\ krates[1].source # None
    /\ krates[2].source = None
    /\ krates[2].manifest_path[1] = <<"d", "FF">>
    /\ Index(kspans, 1).start > 0
    /\ kspans.sl[Index(kspans, 1).end + 1] = "\n"

(***************************************************************************)
(*                             diag::Grapher                               *)
(***************************************************************************)

\* The largest number of edges in the graph.
MaxEdges == 3

\* The largest number of write_graph calls on one graph.
MaxCalls == 2

\* The four box-drawing characters, each one token of the output.
DWN == "<DWN>"
TEE == "<TEE>"
ELL == "<ELL>"
RGT == "<RGT>"

\* The graph's nodes (NodeId).  Two of them are versions of one crate.
Nodes == {"n0", "n1", "n2"}

\* graph[node].krate: name, version, and the rank of its Kid in Kid's
\* order (Kids are unique per node).
KrateOf(n) ==
    CASE n = "n0" -> [name |-> "dep", version |-> "2.0.0", id |-> 3]
      [] n = "n1" -> [name |-> "app", version |-> "0.1.0", id |-> 1]
      [] n = "n2" -> [name |-> "dep", version |-> "1.0.0", id |-> 2]

DepKinds == {"Normal", "Dev", "Build"}

\* Edges run from a consumer (source) to its dependency (dest); a consumer
\* may have edges of several kinds to one dependency.  A package depends
\* on itself only as a dev-dependency.
EdgeUniverse ==
    {e \in [source : Nodes, dest : Nodes, kind : DepKinds] :
        e.source = e.dest => e.kind = "Dev"}

\* krates.nid_for_kid: the node of a Kid, None for a Kid not in the graph.
NidForKid(id) == IF id \in Nodes THEN Some(id) ELSE None

\* graph.edges_directed(n, Incoming): the incoming edges of n, in an order
\* the graph does not specify.
EdgesDirectedIncoming(n) ==
    LET inc == {e \in edges : e.dest = n}
    IN  {f \in [1..Cardinality(inc) -> inc] :
            \A i, j \in 1..Cardinality(inc) : i # j => f[i] # f[j]}

\* The NodePrint pushed for an incoming edge.
NodePrint(edge) ==
    [krate |-> KrateOf(edge.source),
     id    |-> edge.source,
     kind  |-> CASE edge.kind = "Normal" -> ""
                 [] edge.kind = "Dev"    -> "dev"
                 [] edge.kind = "Build"  -> "build"]

RECURSIVE InsertByKey(_, _)
InsertByKey(x, s) ==
    IF s = <<>> THEN <<x>>
    ELSE IF x.krate.id < Head(s).krate.id THEN <<x>> \o s
    ELSE <<Head(s)>> \o InsertByKey(x, Tail(s))

\* parents.sort_by_key(|n| &n.krate.id): a stable sort by Kid.
RECURSIVE SortByKey(_, _)
SortByKey(s, acc) ==
    IF s = <<>> THEN acc
    ELSE SortByKey(Tail(s), InsertByKey(Head(s), acc))

VisitedKeyByName(np) == np.krate.name

\* What write_parent puts in the visited set: the node id.
VisitedKey(np) == np.id

\* The indentation write_parent prints for levels_continue.
Indent(levels) ==
    IF levels = <<>> THEN <<>>
    ELSE LET rest == SubSeq(levels, 1, Len(levels) - 1)
             last_continues == levels[Len(levels)]
         IN  Concat([i \in 1..Len(rest) |->
                        <<IF rest[i] THEN DWN ELSE " ", "   ">>])
             \o <<IF last_continues THEN TEE ELSE ELL, RGT, RGT, " ">>

\* The label line of a node, with its newline.
LabelLine(np, star) ==
    (IF np.kind = "" THEN <<>> ELSE <<"(", np.kind, ") ">>)
    \o <<np.krate.name, " v", np.krate.version>> \o star \o <<"\n">>

\* write_parent up to its call of write_parents; `incoming` is the order in
\* which the graph enumerates the node's incoming edges.  parents is empty
\* when the function returns without calling write_parents.
WriteParent(np, o, vis, levels, incoming) ==
    LET new  == VisitedKey(np) \notin vis
        star == IF new THEN <<>> ELSE <<" (*)">>
    IN  [out     |-> o \o Indent(levels) \o LabelLine(np, star),
         visited |-> vis \cup {VisitedKey(np)},
         new     |-> new,
         parents |-> IF new
                     THEN SortByKey([i \in DOMAIN incoming |->
                                        NodePrint(incoming[i])], <<>>)
                     ELSE <<>>]

\* A write_parents invocation: its argument, `cont`, and the loop index.
Frame(parents) == [parents |-> parents, cont |-> Len(parents) - 1, i |-> 0]

TraceEntry(np, r) == [id |-> np.id, star |-> ~r.new, recursed |-> r.new]

\* The sets of at most k edges.
RECURSIVE EdgeSets(_)
EdgeSets(k) ==
    IF k = 0 THEN {{}}
    ELSE LET smaller == EdgeSets(k - 1)
         IN  smaller \cup {E \cup {e} : E \in smaller, e \in EdgeUniverse}

\* A resolved graph of at most MaxEdges edges; no call made yet.
InitGraph ==
    /\ edges \in EdgeSets(MaxEdges)
    /\ target = "" /\ out = <<>> /\ visited = {}
    /\ levels_continue = <<>> /\ stack = <<>> /\ gpc = "ready"
    /\ trace = <<>> /\ call = 0 /\ prev_out = <<>>
    /\ CfgIdle /\ PackIdle /\ SpanIdle

\* write_graph(id) for a Kid of the graph, up to the first write_parents
\* call (or to its return, when the target has no consumers).
WriteGraphCall(id) ==
    /\ NidForKid(id) # None
    /\ LET node_id == NidForKid(id)[1]
           np == [krate |-> KrateOf(node_id), id |-> node_id, kind |-> ""]
       IN  \E incoming \in EdgesDirectedIncoming(node_id) :
           LET r == WriteParent(np, <<>>, {}, <<>>, incoming)
           IN  /\ out' = r.out
               /\ visited' = r.visited
               /\ levels_continue' = <<>>
               /\ trace' = <<TraceEntry(np, r)>>
               /\ stack' = IF r.parents # <<>>
                           THEN <<Frame(r.parents)>> ELSE <<>>
               /\ gpc' = IF r.parents # <<>> THEN "running" ELSE "done"
    /\ target' = id
    /\ prev_out' = out
    /\ call' = call + 1
    /\ UNCHANGED edges
    /\ UNCHANGED <<cfgVars, packVars, spanVars>>

\* The first write_graph call on the graph.
WriteGraph ==
    /\ gpc = "ready"
    /\ \E id \in Nodes : WriteGraphCall(id)

\* Another write_graph call on the same graph, for the same target.
WriteGraphAgain ==
    /\ gpc = "done"
    /\ call < MaxCalls
    /\ WriteGraphCall(target)

\* write_graph(id) for a Kid that is not in the graph: "unable to find
\* node".
WriteGraphMissing ==
    /\ gpc = "ready"
    /\ call = 0
    /\ \E id \in {"absent"} :
          /\ NidForKid(id) = None
          /\ target' = id
    /\ gpc' = "failed"
    /\ call' = call + 1
    /\ UNCHANGED <<edges, out, visited, levels_continue, stack, trace,
                   prev_out>>
    /\ UNCHANGED <<cfgVars, packVars, spanVars>>

Top == stack[Len(stack)]

\* One turn of the loop of write_parents: push the level, call
\* write_parent; when that returns without recursing, pop the level and
\* move on.
WriteParentCall ==
    /\ gpc = "running"
    /\ stack # <<>>
    /\ Top.i < Len(Top.parents)
    /\ LET np == Top.parents[Top.i + 1]
           levels == Append(levels_continue, Top.i < Top.cont)
       IN  \E incoming \in EdgesDirectedIncoming(np.id) :
           LET r == WriteParent(np, out, visited, levels, incoming)
           IN  /\ out' = r.out
               /\ visited' = r.visited
               /\ trace' = Append(trace, TraceEntry(np, r))
               /\ IF r.parents # <<>>
                  THEN /\ stack' = Append(stack, Frame(r.parents))
                       /\ levels_continue' = levels
                  ELSE /\ stack' = [stack EXCEPT ![Len(stack)].i = @ + 1]
                       /\ levels_continue' = levels_continue
    /\ UNCHANGED <<edges, target, gpc, call, prev_out>>
    /\ UNCHANGED <<cfgVars, packVars, spanVars>>

\* The loop of a write_parents invocation is over: it returns, and so does
\* the write_parent that called it; the calling loop pops the level and
\* moves on, or, at the root, write_graph returns Ok(out).
WriteParentsReturn ==
    /\ gpc = "running"
    /\ stack # <<>>
    /\ Top.i = Len(Top.parents)
    /\ LET rest == SubSeq(stack, 1, Len(stack) - 1)
       IN  IF rest = <<>>
           THEN /\ stack' = <<>>
                /\ gpc' = "done"
                /\ UNCHANGED levels_continue
           ELSE /\ stack' = [rest EXCEPT ![Len(rest)].i = @ + 1]
                /\ levels_continue' =
                      SubSeq(levels_continue, 1, Len(levels_continue) - 1)
                /\ UNCHANGED gpc
    /\ UNCHANGED <<edges, target, out, visited, trace, call, prev_out>>
    /\ UNCHANGED <<cfgVars, packVars, spanVars>>

NextGraph ==
    \/ WriteGraph
    \/ WriteGraphMissing
    \/ WriteParentCall
    \/ WriteParentsReturn

\* A call that has started runs on: the code is sequential.
SpecGraph ==
    /\ InitGraph
    /\ [][NextGraph]_vars
    /\ WF_vars(WriteParentCall \/ WriteParentsReturn)

\* The same, with the query repeated on the same graph.
NextGraphRepeat ==
    \/ WriteGraph
    \/ WriteGraphAgain
    \/ WriteGraphMissing
    \/ WriteParentCall
    \/ WriteParentsReturn

SpecGraphRepeat ==
    /\ InitGraph
    /\ [][NextGraphRepeat]_vars
    /\ WF_vars(WriteParentCall \/ WriteParentsReturn)

(***************************************************************************)
(*                       Properties of the Grapher                         *)
(***************************************************************************)

Occurrences(text, token) ==
    Cardinality({i \in DOMAIN text : text[i] = token})

\* Every write_parent invocation of the call printed one line; it carries
\* the revisit marker exactly when an earlier invocation of the call was
\* for the same node, and it went on to the node's consumers exactly when
\* it carries no marker.
RevisitsOnlyMarked ==
    /\ Occurrences(out, "\n") = Len(trace)
    /\ Occurrences(out, " (*)") =
          Cardinality({i \in DOMAIN trace : trace[i].star})
    /\ \A i \in DOMAIN trace :
          /\ trace[i].star = (\E j \in 1..(i - 1) : trace[j].id = trace[i].id)
          /\ trace[i].recursed = ~trace[i].star

ExpandedAtMostOnce ==
    \A n \in Nodes :
        Cardinality({i \in DOMAIN trace :
                        trace[i].id = n /\ trace[i].recursed}) <= 1

\* C6: every write_graph call that starts walking returns, whatever cycles
\* and diamonds the graph has; within a call no node is expanded twice,
\* and every encounter of a node after its first prints only its label line
\* with the revisit marker.
C6_TerminatesExpandingOnce ==
    /\ [](RevisitsOnlyMarked /\ ExpandedAtMostOnce)
    /\ (gpc = "running") ~> (gpc = "done")

\* A finished call on a graph with a cycle through the target: the target
\* was met again, and another node was expanded in between.
C6_Witness ==
    /\ gpc = "done"
    /\ \E i \in DOMAIN trace : trace[i].star /\ trace[i].id = target
    /\ \E i \in DOMAIN trace : trace[i].recursed /\ trace[i].id # target

\* C7: a second write_graph call for the same target on the same graph
\* returns the same text as the first, whatever the order in which the
\* graph enumerated each node's incoming edges in either call.
C7_SameOutputAnyEdgeOrder ==
    (gpc = "done" /\ call >= 2) => out = prev_out

====
